---- MODULE Spec2Model ----
(***************************************************************************)
(* State-machine model of cloudflare_tunnelmanager/main.py:                *)
(* CloudflareTunnelManager.__init__, run, create_or_reuse_tunnel,          *)
(* remove_cloudflare_tunnel, _remove_tunnel_files, wait_for_url, cleanup,  *)
(* and the interpreter's exit handling (sys.exit, atexit, signal handlers).*)
(* get_cloudflare_domain and create_cloudflared_config are also modelled   *)
(* on their own, over every cert.pem and every argument of a bounded set   *)
(* (SpecIdentity, SpecConfig), and wait_for_url over every sequence of     *)
(* responses (SpecWait).                                                   *)
(* SpecRestart follows a run, a restart on the same machine, and the next  *)
(* run up to its choice between reusing and creating the tunnel.           *)
(*                                                                         *)
(* The provider binary (cloudflared), the file system under ~/.cloudflared,*)
(* the two child processes and the operating system's signals are the      *)
(* environment: every outcome they can produce is a nondeterministic       *)
(* choice (\E) in the action that observes it.                             *)
(***************************************************************************)
EXTENDS Integers, Sequences, FiniteSets, TLC

(* ------------------------------ bounds --------------------------------- *)
\* consecutive program runs sharing the same ~/.cloudflared and provider
MaxRuns == 2
\* consecutive direct calls of one method (SpecProvision, SpecCleanup)
MaxCalls == 2
\* passes of wait_for_url's loop body that are followed (SpecWait)
MaxAttempts == 14

(* -------------------------- program constants -------------------------- *)
\* run: self.wait_for_url(url_to_open, timeout_seconds=60)
TimeoutSeconds == 60
\* wait_for_url: time.sleep(5)
SleepSeconds == 5
\* wait_for_url: requests.get(url, timeout=5)
RequestTimeout == 5

(* ------------------------------ universe ------------------------------- *)
\* self.tunnel_name of the modelled runs
TunnelName == "site"
\* a tunnel this program instance does not manage
OtherName == "other"
Names == {TunnelName, OtherName}
\* provider-assigned tunnel IDs: one per run of the provider's create
\* the k-th tunnel ID the provider hands out; IdOf(0) is one from the past
IdOf(k) == "uuid-" \o ToString(k)
TunnelIds == {IdOf(k) : k \in 0..(MaxRuns + MaxCalls)}
NoId == "None"
Ports == {8100, 8200}
Commands == {"folder", "localhost"}
\* self.full_domain = f"{self.subdomain}.{self.domain}"
FullDomain == "site.example.com"
StaleDomain == "site.old.example"

\* self.cloudflared_dir / f"{tunnel_name}.json"
CredPath(tunnel_name) == <<"json", tunnel_name>>
\* self.cloudflared_dir / f"config-tunnel-{self.tunnel_name}.yml"
ConfigPath(tunnel_name) == <<"yml", tunnel_name>>
\* self.cloudflared_dir / f"{tunnel_id}.json"
IdFilePath(tunnel_id) == <<"json", tunnel_id>>
NoPath == <<"none", "none">>
Paths ==
  {CredPath(n) : n \in Names} \cup {ConfigPath(n) : n \in Names}
    \cup {IdFilePath(i) : i \in TunnelIds}

\* file contents; every content is a record of the same shape
Absent == [kind |-> "absent", id |-> NoId, cred |-> NoPath, host |-> "", port |-> 0]
\* a credentials file {"TunnelID": id, ...}
JsonOf(id) == [kind |-> "json", id |-> id, cred |-> NoPath, host |-> "", port |-> 0]
\* a credentials file that cannot be read or parsed
Garbage == [kind |-> "garbage", id |-> NoId, cred |-> NoPath, host |-> "", port |-> 0]

\* create_cloudflared_config: config_content
ConfigContent(tunnel_name, credentials_file, hostname, local_port) ==
  [kind |-> "yml", id |-> tunnel_name, cred |-> credentials_file,
   host |-> hostname, port |-> local_port]

Exists(fs, p) == fs[p].kind # "absent"

\* Python exception classes raised by the modelled calls
Exceptions ==
  {"TimeoutExpired", "ProcessLookupError", "PermissionError", "OSError",
   "FileNotFoundError"}
NoExc == "none"

\* cleanup: except (subprocess.TimeoutExpired, ProcessLookupError)
\* variant: a wait that times out is not handled
StopHandlers_OnlyGone == {"ProcessLookupError"}
StopHandlers == {"TimeoutExpired", "ProcessLookupError"}
\* cleanup: except ProcessLookupError: pass
KillHandlers == {"ProcessLookupError"}
\* variant: remove_cloudflare_tunnel without its try/except
RemoveTunnelHandlers_NoCatch == {}
\* remove_cloudflare_tunnel: except Exception as e
RemoveTunnelHandlers == Exceptions
\* _remove_tunnel_files: except PermissionError (first tier)
\* variant: the first tier catches every exception
PermissionHandlers_Any == Exceptions
PermissionHandlers == {"PermissionError"}
\* _remove_tunnel_files: except Exception (every other tier, and the yml file)
UnlinkHandlers == Exceptions

ProcNames == {"python", "cloudflared"}

VARIABLES
  pc,            \* position of the control thread
  caller,        \* who called remove_cloudflare_tunnel: "provision" | "cleanup"
  run,           \* number of the current program run
  calls,         \* number of the current direct call (SpecProvision, SpecCleanup)
  command,       \* self.command
  port,          \* self.local_port
  handlers,      \* atexit.register(self.cleanup) and signal.signal(...) done
  exitCode,      \* exit status of the run, -1 while it is running
  endedBy,       \* why the run ended
  sigAfterLaunch,\* a signal was delivered after the processes were launched
  sigInCleanup,  \* a signal was delivered while cleanup was executing
  files,         \* ~/.cloudflared: path -> content
  provTunnels,   \* tunnel resources existing at the provider
  createdByRun,  \* the provider created a tunnel resource during this run
  procs,         \* self.python_process / self.cloudflared_process
  termSent,      \* terminate() calls per process
  killSent,      \* kill() calls per process
  stopLog,       \* how each stop block of the current cleanup() call went
  tunnel_id,     \* create_or_reuse_tunnel: tunnel_id
  path_taken,    \* create_or_reuse_tunnel: "none" | "lookup" | "create"
  provResult,    \* create_or_reuse_tunnel's return value: "none"|"true"|"false"
  prev,          \* record of the previous create_or_reuse_tunnel call
  createCalls,   \* "cloudflared tunnel create" invocations in this call
  cmdLog,        \* "delete"/"create" commands create_or_reuse_tunnel started
  deleteCalls,   \* "cloudflared tunnel delete" invocations, per caller
  routeLog,      \* arguments and outcomes of "tunnel route dns" in this call
  manualPrinted, \* "Manual setup required" was printed in this call
  configCalls,   \* create_cloudflared_config calls in this call
  cleanupCalls,  \* times cleanup() was entered in this run
  cleanupState,  \* "notrun" | "running" | "returned" | "aborted" | "raised"
  stepsDone,     \* cleanup steps attempted in the current cleanup call
  unlinkTries,   \* json_file.unlink() attempts of the last _remove_tunnel_files
  rmLogged,      \* _remove_tunnel_files printed a "Could not remove" message
  atEntry,       \* what cleanup() found when it was entered
  probeResult,   \* wait_for_url's return value: "none" | "true" | "false"
  elapsed,       \* seconds since wait_for_url computed end_time
  browserOpens,  \* webbrowser.open calls
  cert_content,  \* get_cloudflare_domain: lines of ~/.cloudflared/cert.pem
  lineNo,        \* get_cloudflare_domain: position of "for line in lines"
  in_token,      \* get_cloudflare_domain: in_token
  token_lines,   \* get_cloudflare_domain: token_lines
  apiCalls,      \* requests.get calls to the zones API
  domain,        \* get_cloudflare_domain's return value
  cfgArgs,       \* arguments of a create_cloudflared_config call
  cfgText,       \* lines of the text create_cloudflared_config wrote
  timeout_seconds,\* wait_for_url: timeout_seconds
  attempt_count, \* wait_for_url: attempt_count
  waited,        \* wait_for_url: seconds since end_time was computed
  response,      \* wait_for_url: what the last requests.get(url) did
  slept,         \* wait_for_url: seconds of time.sleep since that request
  reachable,     \* wait_for_url's return value
  lastRun        \* how the previous run of the program ended

envVars == <<files, provTunnels, procs>>
runVars == <<run, calls, command, port, handlers, exitCode, endedBy>>
sigVars == <<sigAfterLaunch, sigInCleanup>>
provVars ==
  <<tunnel_id, path_taken, provResult, prev, createCalls, cmdLog,
    routeLog,
    manualPrinted, configCalls, createdByRun>>
cleanVars ==
  <<cleanupCalls, cleanupState, stepsDone, termSent, killSent, stopLog, atEntry>>
rmVars == <<caller, deleteCalls, unlinkTries, rmLogged>>
probeVars == <<probeResult, elapsed, browserOpens>>
idVars == <<cert_content, lineNo, in_token, token_lines, apiCalls, domain>>
cfgVars == <<cfgArgs, cfgText>>
waitVars ==
  <<timeout_seconds, attempt_count, waited, response, slept, reachable>>
pureVars == <<idVars, cfgVars, waitVars>>
vars ==
  <<pc, envVars, runVars, sigVars, provVars, cleanVars, rmVars, probeVars,
    pureVars, lastRun>>

(* ------------------------------ helpers -------------------------------- *)
CleanupPcs == {"cl_python", "cl_cloudflared", "rm_delete", "rm_json", "rm_yml"}
InCleanup == pc \in CleanupPcs /\ caller = "cleanup"

\* nothing is left to tear down for TunnelName
IsClean ==
  /\ \A p \in ProcNames : procs[p] # "running"
  /\ TunnelName \notin provTunnels
  /\ ~Exists(files, CredPath(TunnelName))
  /\ ~Exists(files, ConfigPath(TunnelName))

\* what cleanup() finds on entry: whether everything is already torn down,
\* and whether either of the tunnel's two files exists
EntryRecord ==
  [clean |-> IsClean,
   hadFiles |-> (Exists(files, CredPath(TunnelName))
                   \/ Exists(files, ConfigPath(TunnelName)))]
NoEntry == [clean |-> FALSE, hadFiles |-> FALSE]

\* the ID the provider assigns to a tunnel created by the current call
FreshId == IdOf(run + calls - 1)

NoPrev == [result |-> "none", port |-> 0, cred |-> NoPath]

\* no stop block of cleanup() was reached yet
NoStops == [p \in ProcNames |-> [how |-> "none", waited |-> 0]]

\* entering cleanup(): "Cleaning up..."
EnterCleanup ==
  /\ pc' = "cl_python"
  /\ caller' = "cleanup"
  /\ cleanupCalls' = cleanupCalls + 1
  /\ cleanupState' = "running"
  /\ stepsDone' = {}
  /\ stopLog' = NoStops
  /\ atEntry' = EntryRecord

\* Whether the interpreter runs self.cleanup at exit: only a registered
\* atexit callback runs.
AtexitRunsCleanup == handlers

\* sys.exit(code), or run() returning to main(): the interpreter exits with
\* `code` and first runs the atexit callbacks that are registered.
SysExit(code, why) ==
  /\ exitCode' = code
  /\ endedBy' = why
  /\ IF AtexitRunsCleanup
       THEN /\ EnterCleanup
            /\ UNCHANGED <<termSent, killSent>>
       ELSE /\ pc' = "exited"
            /\ UNCHANGED <<cleanVars, caller>>
  /\ UNCHANGED <<run, calls, command, port, handlers>>

(* ------------------------------- Init ---------------------------------- *)
\* ~/.cloudflared as an earlier run, or another tunnel, may have left it
InitFiles ==
  {[p \in Paths |->
      IF p = CredPath(TunnelName) THEN c
      ELSE IF p = ConfigPath(TunnelName) THEN y
      ELSE IF p = CredPath(OtherName) THEN o
      ELSE IF p = ConfigPath(OtherName)
        THEN (IF o = Absent THEN Absent
              ELSE ConfigContent(OtherName, CredPath(OtherName), StaleDomain, 8100))
      ELSE Absent] :
     c \in {Absent, JsonOf(IdOf(0)), Garbage},
     y \in {Absent,
            ConfigContent(TunnelName, CredPath(TunnelName), StaleDomain, 8100)},
     o \in {JsonOf(IdOf(0))}}

InitCommon ==
  /\ files \in InitFiles
  /\ provTunnels \in {{OtherName}, {OtherName, TunnelName}}
  /\ run = 1
  /\ calls = 1
  /\ exitCode = -1
  /\ endedBy = "none"
  /\ sigAfterLaunch = FALSE
  /\ sigInCleanup = FALSE
  /\ createdByRun = FALSE
  /\ termSent = [p \in ProcNames |-> 0]
  /\ killSent = [p \in ProcNames |-> 0]
  /\ stopLog = NoStops
  /\ tunnel_id = NoId
  /\ path_taken = "none"
  /\ provResult = "none"
  /\ prev = NoPrev
  /\ lastRun = "none"
  /\ createCalls = 0
  /\ cmdLog = <<>>
  /\ deleteCalls = [provision |-> 0, cleanup |-> 0]
  /\ routeLog = <<>>
  /\ manualPrinted = FALSE
  /\ configCalls = 0
  /\ stepsDone = {}
  /\ unlinkTries = 0
  /\ rmLogged = FALSE
  /\ probeResult = "none"
  /\ elapsed = 0
  /\ browserOpens = 0

\* get_cloudflare_domain and create_cloudflared_config not yet called
NoCert == <<"no cert.pem">>
NotReturned == "not returned"
NoArgs == [tunnel_name |-> "", hostname |-> "", local_port |-> 0]
InitIdentityIdle ==
  /\ cert_content = NoCert
  /\ lineNo = 0
  /\ in_token = FALSE
  /\ token_lines = <<>>
  /\ apiCalls = 0
  /\ domain = NotReturned
InitConfigIdle ==
  /\ cfgArgs = NoArgs
  /\ cfgText = <<>>
\* wait_for_url not yet called
InitWaitIdle ==
  /\ timeout_seconds = 0
  /\ attempt_count = 0
  /\ waited = 0
  /\ response = "none"
  /\ slept = 0
  /\ reachable = NotReturned

\* main(): before CloudflareTunnelManager(...) is constructed
Init ==
  /\ InitCommon
  /\ InitIdentityIdle
  /\ InitConfigIdle
  /\ InitWaitIdle
  /\ pc = "init"
  /\ caller = "none"
  /\ command = "none"
  /\ port = 0
  /\ handlers = FALSE
  /\ procs = [p \in ProcNames |-> "none"]
  /\ cleanupCalls = 0
  /\ cleanupState = "notrun"
  /\ atEntry = NoEntry

(* ------------------------------ startup -------------------------------- *)
\* main() / __init__: self.domain = self.get_cloudflare_domain();
\* sys.exit(1) when it is None
Construct ==
  /\ pc = "init"
  /\ \E cmd \in Commands, p \in Ports, domainOK \in BOOLEAN :
       IF domainOK
         THEN /\ pc' = "chdir"
              /\ command' = cmd
              /\ port' = p
              /\ UNCHANGED <<run, calls, handlers, exitCode, endedBy,
                             cleanVars, caller>>
         ELSE /\ SysExit(1, "identity")
  /\ UNCHANGED <<envVars, sigVars, provVars, probeVars, deleteCalls,
                 unlinkTries, rmLogged>>
  /\ UNCHANGED <<pureVars, lastRun>>

\* run(): the folder checks, sys.exit(1) when the folder is missing or is
\* not a directory
RunChdir ==
  /\ pc = "chdir"
  /\ \E folder \in {"dir", "missing", "notdir"} :
       IF command = "folder" /\ folder # "dir"
         THEN SysExit(1, "folder")
         ELSE /\ pc' = "check_installed"
              /\ UNCHANGED <<runVars, cleanVars, caller>>
  /\ UNCHANGED <<envVars, sigVars, provVars, probeVars, deleteCalls,
                 unlinkTries, rmLogged>>
  /\ UNCHANGED <<pureVars, lastRun>>

\* run(): if not self.test_cloudflared_installed(): sys.exit(1)
RunCheckInstalled ==
  /\ pc = "check_installed"
  /\ \E installed \in BOOLEAN :
       IF installed
         THEN /\ pc' = "prov_lookup"
              /\ UNCHANGED <<runVars, cleanVars, caller>>
         ELSE SysExit(1, "not_installed")
  /\ UNCHANGED <<envVars, sigVars, provVars, probeVars, deleteCalls,
                 unlinkTries, rmLogged>>
  /\ UNCHANGED <<pureVars, lastRun>>

(* ---------------- remove_cloudflare_tunnel / _remove_tunnel_files ------- *)
\* control returns from remove_cloudflare_tunnel to its caller:
\* create_or_reuse_tunnel goes on to "tunnel create", cleanup() returns
RmReturn ==
  IF caller = "cleanup"
    THEN /\ pc' = "cl_done"
         /\ cleanupState' = "returned"
    ELSE /\ pc' = "prov_create"
         /\ UNCHANGED cleanupState

\* an exception leaves remove_cloudflare_tunnel uncaught: cleanup() raises
\* (the atexit machinery reports it), create_or_reuse_tunnel's own
\* "except Exception" turns it into return False
RmPropagate ==
  IF caller = "cleanup"
    THEN /\ pc' = "exited"
         /\ cleanupState' = "raised"
         /\ UNCHANGED provResult
    ELSE /\ pc' = "prov_ret"
         /\ provResult' = "false"
         /\ UNCHANGED cleanupState

RmMark(step) ==
  stepsDone' = IF caller = "cleanup" THEN stepsDone \cup {step} ELSE stepsDone

\* what "cloudflared tunnel delete -f <name>" can do: exit 0 having removed
\* the resource, exit non-zero leaving the provider as it was, or not run
DeleteOutcomes(tunnel_name) ==
  {"rc1", "raise"} \cup (IF tunnel_name \in provTunnels THEN {"rc0"} ELSE {})

\* remove_cloudflare_tunnel, up to the call of _remove_tunnel_files
RmDelete ==
  /\ pc = "rm_delete"
  /\ \E out \in DeleteOutcomes(TunnelName) :
       /\ provTunnels' =
            IF out = "rc0" THEN provTunnels \ {TunnelName} ELSE provTunnels
       /\ deleteCalls' =
            IF out = "raise" THEN deleteCalls
            ELSE [deleteCalls EXCEPT ![caller] = @ + 1]
       /\ IF out # "raise"
            THEN /\ pc' = "rm_json"
                 /\ UNCHANGED <<cleanupState, provResult>>
            ELSE IF "FileNotFoundError" \in RemoveTunnelHandlers
              THEN RmReturn /\ UNCHANGED provResult
              ELSE RmPropagate
  /\ RmMark("delete")
  /\ cmdLog' = IF caller = "provision" THEN Append(cmdLog, "delete") ELSE cmdLog
  /\ UNCHANGED <<files, procs, runVars, sigVars, probeVars, caller,
                 unlinkTries, rmLogged, cleanupCalls, termSent, killSent, stopLog,
                 atEntry, tunnel_id, path_taken, prev, createCalls, routeLog,
                 manualPrinted, configCalls, createdByRun>>
  /\ UNCHANGED <<pureVars, lastRun>>

\* what one unlink() can raise
UnlinkOutcomes == {NoExc, "PermissionError", "OSError"}

\* _remove_tunnel_files, the credentials file: the nested try blocks, given
\* what the first, second and third unlink() would raise
UnlinkJson(e1, e2, e3) ==
  IF e1 = NoExc
    THEN [removed |-> TRUE, tries |-> 1, logged |-> FALSE, exc |-> NoExc]
  ELSE IF e1 \in PermissionHandlers
    THEN (IF e2 = NoExc
            THEN [removed |-> TRUE, tries |-> 2, logged |-> FALSE, exc |-> NoExc]
          ELSE IF e2 \notin UnlinkHandlers
            THEN [removed |-> FALSE, tries |-> 2, logged |-> FALSE, exc |-> e2]
          ELSE IF e3 = NoExc
            THEN [removed |-> TRUE, tries |-> 3, logged |-> FALSE, exc |-> NoExc]
          ELSE IF e3 \in UnlinkHandlers
            THEN [removed |-> FALSE, tries |-> 3, logged |-> TRUE, exc |-> NoExc]
          ELSE [removed |-> FALSE, tries |-> 3, logged |-> FALSE, exc |-> e3])
  ELSE IF e1 \in UnlinkHandlers
    THEN [removed |-> FALSE, tries |-> 1, logged |-> TRUE, exc |-> NoExc]
  ELSE [removed |-> FALSE, tries |-> 1, logged |-> FALSE, exc |-> e1]

\* the paths _remove_tunnel_files may unlink
\* variant: every *.json of the directory is unlinked
JsonTargets_AllJson(tunnel_name) ==
  {p \in Paths : p[1] = "json"}
JsonTargets(tunnel_name) == {CredPath(tunnel_name)}
YmlTargets(tunnel_name) == {ConfigPath(tunnel_name)}

\* variant: unlink() returns without removing anything
Unlinked_Nothing(fs, targets) == fs
Unlinked(fs, targets) == [p \in Paths |-> IF p \in targets THEN Absent ELSE fs[p]]

\* _remove_tunnel_files: "Remove JSON credentials file"
RmJson ==
  /\ pc = "rm_json"
  /\ IF \E p \in JsonTargets(TunnelName) : Exists(files, p)
       THEN \E e1 \in UnlinkOutcomes, e2 \in UnlinkOutcomes, e3 \in UnlinkOutcomes :
              LET r == UnlinkJson(e1, e2, e3) IN
                /\ files' = IF r.removed
                              THEN Unlinked(files, JsonTargets(TunnelName))
                              ELSE files
                /\ unlinkTries' = r.tries
                /\ rmLogged' = r.logged
                /\ IF r.exc = NoExc
                     THEN /\ pc' = "rm_yml"
                          /\ UNCHANGED <<cleanupState, provResult>>
                     ELSE IF r.exc \in RemoveTunnelHandlers
                       THEN RmReturn /\ UNCHANGED provResult
                       ELSE RmPropagate
       ELSE /\ pc' = "rm_yml"
            /\ unlinkTries' = 0
            /\ rmLogged' = FALSE
            /\ UNCHANGED <<files, cleanupState, provResult>>
  /\ RmMark("json")
  /\ UNCHANGED <<provTunnels, procs, runVars, sigVars, probeVars, caller,
                 deleteCalls, cleanupCalls, termSent, killSent, stopLog, atEntry,
                 tunnel_id, path_taken, prev, createCalls, cmdLog,
                 routeLog,
                 manualPrinted, configCalls, createdByRun>>
  /\ UNCHANGED <<pureVars, lastRun>>

\* _remove_tunnel_files: "Remove YML config file", then the return
RmYml ==
  /\ pc = "rm_yml"
  /\ IF \E p \in YmlTargets(TunnelName) : Exists(files, p)
       THEN \E e \in UnlinkOutcomes :
              /\ files' = IF e = NoExc
                            THEN Unlinked(files, YmlTargets(TunnelName))
                            ELSE files
              /\ rmLogged' = (rmLogged \/ (e # NoExc /\ e \in UnlinkHandlers))
              /\ IF e = NoExc \/ e \in UnlinkHandlers
                   \/ e \in RemoveTunnelHandlers
                   THEN RmReturn /\ UNCHANGED provResult
                   ELSE RmPropagate
       ELSE /\ RmReturn
            /\ UNCHANGED <<files, rmLogged, provResult>>
  /\ RmMark("yml")
  /\ UNCHANGED <<provTunnels, procs, runVars, sigVars, probeVars, caller,
                 deleteCalls, unlinkTries, cleanupCalls, termSent, killSent, stopLog,
                 atEntry, tunnel_id, path_taken, prev, createCalls, cmdLog,
                 routeLog,
                 manualPrinted, configCalls, createdByRun>>
  /\ UNCHANGED <<pureVars, lastRun>>

(* ------------------------ create_or_reuse_tunnel ------------------------ *)
provFrame ==
  UNCHANGED <<procs, runVars, sigVars, probeVars, cleanVars, rmVars, pureVars,
              lastRun>>

\* find_tunnel_credentials_file: <tunnel_name>.json if it exists, else None
find_tunnel_credentials_file(fs, tunnel_name) ==
  IF Exists(fs, CredPath(tunnel_name)) THEN CredPath(tunnel_name) ELSE NoPath

\* json.load(f).get("TunnelID"), None when the file cannot be read or parsed
\* variant: an unreadable file yields the ID of an earlier tunnel
ReadTunnelId_Guess(fs, p) ==
  IF p # NoPath /\ fs[p].kind = "json" THEN fs[p].id ELSE IdOf(0)
ReadTunnelId(fs, p) ==
  IF p # NoPath /\ fs[p].kind = "json" THEN fs[p].id ELSE NoId

\* The branch create_or_reuse_tunnel takes on the credentials lookup
\* variant: the existing credentials file is ignored
LookupBranch_AlwaysCreate(credentials_file) == "create"
LookupBranch(credentials_file) ==
  IF credentials_file # NoPath THEN "lookup" ELSE "create"

\* Where the else branch of create_or_reuse_tunnel starts:
\* self.remove_cloudflare_tunnel(tunnel_name)
\* variant: the tunnel of the same name is not removed first
CreateBranchStart_NoRemove == "prov_create"
CreateBranchStart == "rm_delete"

\* create_or_reuse_tunnel: "Check if tunnel credentials already exist"
ProvLookup ==
  /\ pc = "prov_lookup"
  /\ LET credentials_file == find_tunnel_credentials_file(files, TunnelName)
         branch == LookupBranch(credentials_file)
     IN /\ path_taken' = branch
        /\ IF branch = "lookup"
             THEN /\ tunnel_id' = ReadTunnelId(files, credentials_file)
                  /\ pc' = "prov_route"
                  /\ UNCHANGED caller
             ELSE /\ tunnel_id' = NoId
                  /\ pc' = CreateBranchStart
                  /\ caller' = "provision"
  /\ UNCHANGED <<envVars, runVars, sigVars, probeVars, cleanVars,
                 deleteCalls, unlinkTries, rmLogged, provResult, prev,
                 createCalls, cmdLog, routeLog, manualPrinted, configCalls,
                 createdByRun>>
  /\ UNCHANGED <<pureVars, lastRun>>

\* what "cloudflared tunnel create <name>" can do: not run at all, exit
\* non-zero, or exit 0 with output that names the credentials path, only the
\* tunnel id, or neither. The provider refuses a name that is taken.
CreateOutcomes(tunnel_name) ==
  {"raise", "rc1"}
    \cup (IF tunnel_name \in provTunnels THEN {}
          ELSE {"path", "idonly", "nomatch"})

\* the credentials file the provider leaves behind: valid, unreadable, none
CredWritten == {"ok", "bad", "missing"}

\* tunnel_id_file.rename(new_credentials_file): what it can do, and the
\* directory after it went through
RenameOutcomes == {"ok", "raise"}
\* variant: the file is copied and the provider-named one stays
Renamed_Copy(fs, from, to) == [fs EXCEPT ![to] = fs[from]]
Renamed(fs, from, to) == [fs EXCEPT ![from] = Absent, ![to] = fs[from]]

\* create_or_reuse_tunnel: the else branch after remove_cloudflare_tunnel:
\* run "tunnel create", parse its output, rename the credentials file
ProvCreate ==
  /\ pc = "prov_create"
  /\ \E out \in CreateOutcomes(TunnelName), w \in CredWritten,
        ren \in RenameOutcomes :
       LET created == out \in {"path", "idonly", "nomatch"}
           id == FreshId
           fs1 == IF created /\ w # "missing"
                    THEN [files EXCEPT ![IdFilePath(id)] =
                            IF w = "ok" THEN JsonOf(id) ELSE Garbage]
                    ELSE files
           tunnel_id_file == IF out \in {"path", "idonly"}
                               THEN IdFilePath(id) ELSE NoPath
           tid == IF out = "path" THEN ReadTunnelId(fs1, tunnel_id_file)
                  ELSE IF out = "idonly" THEN id ELSE NoId
           found == tunnel_id_file # NoPath /\ Exists(fs1, tunnel_id_file)
       IN /\ createCalls' = IF out = "raise" THEN createCalls ELSE createCalls + 1
          /\ cmdLog' = Append(cmdLog, "create")
          /\ provTunnels' = IF created THEN provTunnels \cup {TunnelName}
                            ELSE provTunnels
          /\ createdByRun' = (createdByRun \/ created)
          /\ tunnel_id' = IF created THEN tid ELSE tunnel_id
          /\ IF created /\ found /\ ren = "ok"
               THEN /\ files' = Renamed(fs1, tunnel_id_file, CredPath(TunnelName))
                    /\ pc' = "prov_route"
                    /\ UNCHANGED provResult
               ELSE /\ files' = fs1
                    /\ pc' = "prov_ret"
                    /\ provResult' = "false"
  /\ provFrame
  /\ UNCHANGED <<path_taken, prev, routeLog, manualPrinted, configCalls>>

\* exit status of "cloudflared tunnel route dns --overwrite-dns ..."
RouteOutcomes == {"rc0", "rc1", "raise"}

\* Whether a second route attempt, by tunnel ID, follows a failed first one
\* variant: the route command is never repeated
RetryById_Never(tid) == FALSE
RetryById(tid) == tid # NoId

\* create_or_reuse_tunnel: "Set up DNS route", the attempt by tunnel name
ProvRoute ==
  /\ pc = "prov_route"
  /\ \E out \in RouteOutcomes :
       /\ routeLog' = Append(routeLog, [by |-> "name", arg |-> TunnelName, rc |-> out])
       /\ IF out = "raise"
            THEN pc' = "prov_ret" /\ provResult' = "false"
            ELSE /\ pc' = IF out = "rc1" /\ RetryById(tunnel_id)
                            THEN "prov_route2" ELSE "prov_config"
                 /\ UNCHANGED provResult
  /\ provFrame
  /\ UNCHANGED <<files, provTunnels, tunnel_id, path_taken, prev, createCalls,
                 cmdLog,
                 manualPrinted, configCalls, createdByRun>>

\* Where create_or_reuse_tunnel goes after both route attempts failed
\* variant: a failed second route attempt makes the call return False
AfterRouteFailure_Abort == "prov_ret"
AfterRouteFailure == "prov_config"

\* create_or_reuse_tunnel: "Try with tunnel ID if name failed"
ProvRoute2 ==
  /\ pc = "prov_route2"
  /\ \E out \in RouteOutcomes :
       /\ routeLog' = Append(routeLog, [by |-> "id", arg |-> tunnel_id, rc |-> out])
       /\ manualPrinted' = (out = "rc1")
       /\ IF out = "raise"
            THEN pc' = "prov_ret" /\ provResult' = "false"
            ELSE IF out = "rc1"
              THEN /\ pc' = AfterRouteFailure
                   /\ provResult' = IF AfterRouteFailure = "prov_ret"
                                      THEN "false" ELSE provResult
              ELSE pc' = "prov_config" /\ UNCHANGED provResult
  /\ provFrame
  /\ UNCHANGED <<files, provTunnels, tunnel_id, path_taken, prev, createCalls,
                 cmdLog,
                 configCalls, createdByRun>>

\* config_path.write_text(config_content, encoding='utf-8')
\* variant: a config file that exists is left as it is
WriteText_KeepExisting(fs, p, content) ==
  IF Exists(fs, p) THEN fs ELSE [fs EXCEPT ![p] = content]
WriteText(fs, p, content) == [fs EXCEPT ![p] = content]

\* create_or_reuse_tunnel: "Create config file now that we have credentials"
\* (create_cloudflared_config), then return True or False
ProvConfig ==
  /\ pc = "prov_config"
  /\ \E w \in {"ok", "raise"} :
       LET credentials_file == find_tunnel_credentials_file(files, TunnelName)
           written == credentials_file # NoPath /\ w = "ok"
       IN /\ files' = IF written
                        THEN WriteText(files, ConfigPath(TunnelName),
                                       ConfigContent(TunnelName, credentials_file,
                                                     FullDomain, port))
                        ELSE files
          /\ configCalls' = configCalls + 1
          /\ provResult' = IF written THEN "true" ELSE "false"
  /\ pc' = "prov_ret"
  /\ provFrame
  /\ UNCHANGED <<provTunnels, tunnel_id, path_taken, prev, createCalls,
                 cmdLog,
                 routeLog, manualPrinted, createdByRun>>

\* run(): "if not self.create_or_reuse_tunnel(self.tunnel_name)"
\* variant: the result of create_or_reuse_tunnel is ignored
ProvisionFailed_Ignored(result) == FALSE
ProvisionFailed(result) == result = "false"

\* run(): if not self.create_or_reuse_tunnel(...): sys.exit(1); otherwise
\* "Register cleanup handlers": atexit.register and both signal.signal calls
RunAfterProvision ==
  /\ pc = "prov_ret"
  /\ IF ProvisionFailed(provResult)
       THEN /\ SysExit(1, "provision")
            /\ UNCHANGED <<tunnel_id, routeLog, manualPrinted, createCalls,
                           cmdLog, configCalls, deleteCalls, unlinkTries,
                           rmLogged>>
       ELSE /\ handlers' = TRUE
            /\ pc' = "launch_local"
            /\ UNCHANGED <<run, calls, command, port, exitCode, endedBy,
                           cleanVars, caller>>
            \* the call's locals and its log go out of scope with the call
            /\ tunnel_id' = NoId
            /\ routeLog' = <<>>
            /\ manualPrinted' = FALSE
            /\ createCalls' = 0
            /\ cmdLog' = <<>>
            /\ configCalls' = 0
            /\ deleteCalls' = [provision |-> 0, cleanup |-> 0]
            /\ unlinkTries' = 0
            /\ rmLogged' = FALSE
  /\ UNCHANGED <<envVars, sigVars, probeVars, path_taken, provResult, prev,
                 createdByRun>>
  /\ UNCHANGED <<pureVars, lastRun>>

(* ------------------------- run(): launch and wait ----------------------- *)
Min(a, b) == IF a < b THEN a ELSE b

\* Whether run() starts the local HTTP server: if self.command == "folder"
\* variant: the HTTP server is started for every command
StartsLocalService_Always(cmd) == TRUE
StartsLocalService(cmd) == cmd = "folder"

\* run(): "Start services based on command"
LaunchLocal ==
  /\ pc = "launch_local"
  /\ procs' = IF StartsLocalService(command)
                THEN [procs EXCEPT !["python"] = "running"]
                ELSE procs
  /\ pc' = "launch_transport"
  /\ UNCHANGED <<files, provTunnels, runVars, sigVars, provVars, cleanVars,
                 rmVars, probeVars>>
  /\ UNCHANGED <<pureVars, lastRun>>

\* run(): "Start cloudflared tunnel"; wait_for_url computes end_time
LaunchTransport ==
  /\ pc = "launch_transport"
  /\ procs' = [procs EXCEPT !["cloudflared"] = "running"]
  /\ pc' = "probe"
  /\ elapsed' = 0
  /\ UNCHANGED <<files, provTunnels, runVars, sigVars, provVars, cleanVars,
                 rmVars, probeResult, browserOpens>>
  /\ UNCHANGED <<pureVars, lastRun>>

\* what one requests.get(url, timeout=5) can do
ProbeOutcomes == {"200", "non200", "exception"}

\* wait_for_url: seconds that pass in one pass of the loop body; time.sleep(5)
\* is inside the except block
LoopSeconds(out, d) == IF out = "exception" THEN d + SleepSeconds ELSE d

\* wait_for_url: one evaluation of "while datetime.now() < end_time" and,
\* when it holds, one pass of the loop body
Probe ==
  /\ pc = "probe"
  /\ IF elapsed >= TimeoutSeconds
       THEN /\ probeResult' = "false"
            /\ pc' = "after_probe"
            /\ UNCHANGED elapsed
       ELSE \E out \in ProbeOutcomes, d \in {0, RequestTimeout} :
              /\ elapsed' = Min(elapsed + LoopSeconds(out, d), TimeoutSeconds)
              /\ IF out = "200"
                   THEN probeResult' = "true" /\ pc' = "after_probe"
                   ELSE UNCHANGED <<probeResult, pc>>
  /\ UNCHANGED <<envVars, runVars, sigVars, provVars, cleanVars, rmVars,
                 browserOpens>>
  /\ UNCHANGED <<pureVars, lastRun>>

\* Whether run() opens the browser: if self.wait_for_url(...)
\* variant: webbrowser.open is called whatever wait_for_url returned
OpensBrowser_Always(result) == TRUE
OpensBrowser(result) == result = "true"

\* run(): webbrowser.open(url_to_open), or the "Timed out" guidance
AfterProbe ==
  /\ pc = "after_probe"
  /\ browserOpens' = IF OpensBrowser(probeResult)
                       THEN browserOpens + 1 ELSE browserOpens
  /\ pc' = "supervise"
  /\ elapsed' = 0
  /\ UNCHANGED <<envVars, runVars, sigVars, provVars, cleanVars, rmVars,
                 probeResult>>
  /\ UNCHANGED <<pureVars, lastRun>>

\* run(): the "while self.cloudflared_process.poll() is None" loop ends
LoopEnds ==
  \/ procs["cloudflared"] # "running"
  \/ (procs["python"] # "none" /\ procs["python"] # "running")

\* run(): the wait loop ends, run() and main() return, the interpreter exits
SuperviseReturn ==
  /\ pc = "supervise"
  /\ LoopEnds
  /\ SysExit(0, "return")
  /\ UNCHANGED <<envVars, sigVars, provVars, probeVars, deleteCalls,
                 unlinkTries, rmLogged>>
  /\ UNCHANGED <<pureVars, lastRun>>

\* a child process exits on its own
ProcExit ==
  /\ pc # "exited"
  /\ \E p \in ProcNames :
       /\ procs[p] = "running"
       /\ procs' = [procs EXCEPT ![p] = "exited"]
  /\ UNCHANGED <<pc, files, provTunnels, runVars, sigVars, provVars,
                 cleanVars, rmVars, probeVars>>
  /\ UNCHANGED <<pureVars, lastRun>>

(* ------------------------------- cleanup -------------------------------- *)
\* cleanup: self.python_process.wait(timeout=5) and
\* self.cloudflared_process.wait(timeout=5)
StopTimeout == 5

\* seconds a process that honours terminate() takes to exit
ExitDelays == {0, StopTimeout - 1}

\* seconds spent in wait(timeout=5): until the process exited, the whole
\* timeout when TimeoutExpired is raised, none when terminate() raised
Waited(t, d) ==
  IF t = NoExc THEN d ELSE IF t = "TimeoutExpired" THEN StopTimeout ELSE 0

\* how the graceful stop of a running process went
HowStopped(t) ==
  IF t = NoExc THEN "exited"
  ELSE IF t = "TimeoutExpired" THEN "timeout" ELSE "gone"

\* what terminate() followed by wait(timeout=5) can raise
StopOutcomes == {NoExc, "TimeoutExpired", "ProcessLookupError"}
\* what kill() can raise
KillOutcomes == {NoExc, "ProcessLookupError"}

\* Whether cleanup stops a process: "if self.p and self.p.poll() is None"
\* variant: the poll() test is missing
NeedsStop_Always(state) == state # "none"
NeedsStop(state) == state # "none" /\ state = "running"

\* cleanup(): one "Stop processes if they're still running" block.
\* [state, term, kill, exc]: the process state afterwards, the terminate()
\* and kill() calls made, and the exception that leaves the block
StopBlock(state, t, k) ==
  IF ~NeedsStop(state)
    THEN [state |-> state, term |-> 0, kill |-> 0, exc |-> NoExc]
  ELSE IF t = NoExc
    THEN [state |-> "exited", term |-> 1, kill |-> 0, exc |-> NoExc]
  ELSE IF t \notin StopHandlers
    THEN [state |-> state, term |-> 1, kill |-> 0, exc |-> t]
  ELSE IF k = NoExc
    THEN [state |-> "killed", term |-> 1, kill |-> 1, exc |-> NoExc]
  ELSE IF k \in KillHandlers
    THEN [state |-> "exited", term |-> 1, kill |-> 1, exc |-> NoExc]
  ELSE [state |-> state, term |-> 1, kill |-> 1, exc |-> k]

CleanupStop(p, here, next) ==
  /\ pc = here
  /\ \E t \in StopOutcomes, k \in KillOutcomes, d \in ExitDelays :
       LET r == StopBlock(procs[p], t, k) IN
         /\ procs' = [procs EXCEPT ![p] = r.state]
         /\ termSent' = [termSent EXCEPT ![p] = @ + r.term]
         /\ killSent' = [killSent EXCEPT ![p] = @ + r.kill]
         /\ stopLog' = [stopLog EXCEPT ![p] =
                          IF r.term = 0 THEN [how |-> "skipped", waited |-> 0]
                          ELSE [how |-> HowStopped(t), waited |-> Waited(t, d)]]
         /\ IF r.exc = NoExc
              THEN pc' = next /\ UNCHANGED cleanupState
              ELSE pc' = "exited" /\ cleanupState' = "raised"
  /\ stepsDone' = stepsDone \cup {p}
  /\ UNCHANGED <<files, provTunnels, runVars, sigVars, provVars, rmVars,
                 probeVars, cleanupCalls, atEntry>>
  /\ UNCHANGED <<pureVars, lastRun>>

\* cleanup(): the self.python_process block
CleanupPython == CleanupStop("python", "cl_python", "cl_cloudflared")

\* cleanup(): the self.cloudflared_process block, then
\* self.remove_cloudflare_tunnel(self.tunnel_name)
CleanupCloudflared == CleanupStop("cloudflared", "cl_cloudflared", "rm_delete")

\* the atexit callback returned: the interpreter finishes exiting
ProcessExit ==
  /\ pc = "cl_done"
  /\ pc' = "exited"
  /\ UNCHANGED <<envVars, runVars, sigVars, provVars, cleanVars, rmVars,
                 probeVars>>
  /\ UNCHANGED <<pureVars, lastRun>>

(* ------------------------------- signals -------------------------------- *)
Signals == {"SIGINT", "SIGTERM"}

\* exit status when no Python handler is installed: SIGINT raises
\* KeyboardInterrupt, which nothing catches; SIGTERM kills the process
DefaultSignalStatus(sig) == IF sig = "SIGINT" THEN 130 ELSE 143

\* SIGINT or SIGTERM is delivered to the running program.
\*  - before run() installed its handlers: the default disposition ends the
\*    process, and no atexit callback is registered;
\*  - after: the handler "lambda s, f: sys.exit(0)" raises SystemExit in the
\*    control thread. Outside cleanup() that ends run() and the interpreter
\*    exits with 0, running the atexit callback. Inside cleanup() (the atexit
\*    callback itself) no "except" of cleanup, remove_cloudflare_tunnel or
\*    _remove_tunnel_files catches SystemExit: the callback is abandoned where
\*    it stands and the interpreter goes on exiting.
Signal ==
  /\ pc \notin {"exited", "cl_done"}
  /\ \E sig \in Signals :
       /\ IF ~handlers
            THEN /\ pc' = "exited"
                 /\ exitCode' = DefaultSignalStatus(sig)
                 /\ endedBy' = "signal"
                 /\ UNCHANGED <<run, calls, command, port, handlers,
                                cleanVars, caller, sigAfterLaunch, sigInCleanup>>
            ELSE IF InCleanup
              THEN /\ pc' = "exited"
                   /\ sigInCleanup' = TRUE
                   /\ cleanupState' = "aborted"
                   /\ UNCHANGED <<runVars, caller, sigAfterLaunch, cleanupCalls,
                                  stepsDone, termSent, killSent, stopLog, atEntry>>
              ELSE /\ SysExit(0, "signal")
                   /\ sigAfterLaunch' =
                        (sigAfterLaunch \/ pc \in {"probe", "after_probe", "supervise"})
                   /\ UNCHANGED sigInCleanup
  /\ UNCHANGED <<envVars, provVars, probeVars, deleteCalls, unlinkTries,
                 rmLogged>>
  /\ UNCHANGED <<pureVars, lastRun>>

(* ------------------------------ next run -------------------------------- *)
\* what a finished create_or_reuse_tunnel call leaves for the next one
CallRecord ==
  [result |-> provResult,
   port |-> port,
   cred |-> IF provResult = "true" THEN files[ConfigPath(TunnelName)].cred
            ELSE NoPath]

\* a run ended with cleanup() returned, both file removals attempted and no
\* "Could not remove" message printed
CleanExit ==
  /\ pc = "exited"
  /\ cleanupState = "returned"
  /\ {"json", "yml"} \subseteq stepsDone
  /\ ~rmLogged

\* the program is started again: ~/.cloudflared and the provider are as the
\* previous run left them, everything else is new
Restart ==
  /\ pc = "exited"
  /\ run < MaxRuns
  /\ run' = run + 1
  /\ pc' = "init"
  /\ caller' = "none"
  /\ command' = "none"
  /\ port' = 0
  /\ handlers' = FALSE
  /\ exitCode' = -1
  /\ endedBy' = "none"
  /\ sigAfterLaunch' = FALSE
  /\ sigInCleanup' = FALSE
  /\ createdByRun' = FALSE
  /\ procs' = [p \in ProcNames |-> "none"]
  /\ termSent' = [p \in ProcNames |-> 0]
  /\ killSent' = [p \in ProcNames |-> 0]
  /\ stopLog' = NoStops
  /\ tunnel_id' = NoId
  /\ path_taken' = "none"
  /\ provResult' = "none"
  /\ prev' = [result |-> provResult, port |-> port, cred |-> NoPath]
  /\ createCalls' = 0
  /\ cmdLog' = <<>>
  /\ deleteCalls' = [provision |-> 0, cleanup |-> 0]
  /\ routeLog' = <<>>
  /\ manualPrinted' = FALSE
  /\ configCalls' = 0
  /\ cleanupCalls' = 0
  /\ cleanupState' = "notrun"
  /\ stepsDone' = {}
  /\ unlinkTries' = 0
  /\ rmLogged' = FALSE
  /\ atEntry' = NoEntry
  /\ probeResult' = "none"
  /\ elapsed' = 0
  /\ browserOpens' = 0
  /\ lastRun' = IF CleanExit THEN "clean" ELSE "unclean"
  /\ UNCHANGED <<files, provTunnels, calls>>
  /\ UNCHANGED pureVars

Next ==
  \/ Construct
  \/ RunChdir
  \/ RunCheckInstalled
  \/ ProvLookup
  \/ RmDelete
  \/ RmJson
  \/ RmYml
  \/ ProvCreate
  \/ ProvRoute
  \/ ProvRoute2
  \/ ProvConfig
  \/ RunAfterProvision
  \/ LaunchLocal
  \/ LaunchTransport
  \/ Probe
  \/ AfterProbe
  \/ SuperviseReturn
  \/ ProcExit
  \/ CleanupPython
  \/ CleanupCloudflared
  \/ ProcessExit
  \/ Signal

\* one run of the program, from main() to the exit of the interpreter
Spec == Init /\ [][Next]_vars

NextRuns ==
  \/ Next
  \/ Restart

\* consecutive runs of the program on the same machine
SpecRuns == Init /\ [][NextRuns]_vars

\* the last of the runs, up to the point where create_or_reuse_tunnel has
\* chosen between reusing and creating
LastRunStart ==
  /\ run = MaxRuns
  /\ \/ Construct
     \/ RunChdir
     \/ RunCheckInstalled
     \/ ProvLookup

NextRestart ==
  \/ (run < MaxRuns /\ Next)
  \/ Restart
  \/ LastRunStart

\* consecutive runs, the last one followed until it has chosen its path
SpecRestart == Init /\ [][NextRestart]_vars

(* ------------- create_or_reuse_tunnel called again and again ------------ *)
\* a caller holding a constructed manager, about to call
\* create_or_reuse_tunnel(self.tunnel_name)
InitProvision ==
  /\ InitCommon
  /\ InitIdentityIdle
  /\ InitConfigIdle
  /\ InitWaitIdle
  /\ pc = "prov_lookup"
  /\ caller = "none"
  /\ command \in Commands
  /\ port \in Ports
  /\ handlers = FALSE
  /\ procs = [p \in ProcNames |-> "none"]
  /\ cleanupCalls = 0
  /\ cleanupState = "notrun"
  /\ atEntry = NoEntry

\* create_or_reuse_tunnel returned and is called once more, with the same
\* tunnel name and domain and any local port
ProvisionAgain ==
  /\ pc = "prov_ret"
  /\ calls < MaxCalls
  /\ calls' = calls + 1
  /\ prev' = CallRecord
  /\ \E p \in Ports : port' = p
  /\ pc' = "prov_lookup"
  /\ caller' = "none"
  /\ tunnel_id' = NoId
  /\ path_taken' = "none"
  /\ provResult' = "none"
  /\ createCalls' = 0
  /\ cmdLog' = <<>>
  /\ deleteCalls' = [provision |-> 0, cleanup |-> 0]
  /\ routeLog' = <<>>
  /\ manualPrinted' = FALSE
  /\ configCalls' = 0
  /\ unlinkTries' = 0
  /\ rmLogged' = FALSE
  /\ UNCHANGED <<envVars, run, command, handlers, exitCode, endedBy, sigVars,
                 createdByRun, cleanVars, probeVars>>
  /\ UNCHANGED <<pureVars, lastRun>>

NextProvision ==
  \/ ProvLookup
  \/ RmDelete
  \/ RmJson
  \/ RmYml
  \/ ProvCreate
  \/ ProvRoute
  \/ ProvRoute2
  \/ ProvConfig
  \/ ProvisionAgain

SpecProvision == InitProvision /\ [][NextProvision]_vars

(* ----------------------- cleanup called again and again ----------------- *)
\* cleanup() is entered with the processes, the provider and the files in
\* any state a run can have left them in
InitCleanup ==
  /\ InitCommon
  /\ InitIdentityIdle
  /\ InitConfigIdle
  /\ InitWaitIdle
  /\ pc = "cl_python"
  /\ caller = "cleanup"
  /\ command \in Commands
  /\ port \in Ports
  /\ handlers = TRUE
  /\ procs \in {f \in [ProcNames -> {"none", "running", "exited"}] :
                  command = "localhost" => f["python"] = "none"}
  /\ cleanupCalls = 1
  /\ cleanupState = "running"
  /\ atEntry = EntryRecord

\* cleanup() returned and is called once more
CleanupAgain ==
  /\ pc = "cl_done"
  /\ calls < MaxCalls
  /\ calls' = calls + 1
  /\ EnterCleanup
  /\ UNCHANGED <<envVars, run, command, port, handlers, exitCode, endedBy,
                 sigVars, provVars, deleteCalls, unlinkTries, rmLogged,
                 termSent, killSent, probeVars>>
  /\ UNCHANGED <<pureVars, lastRun>>

NextCleanup ==
  \/ CleanupPython
  \/ CleanupCloudflared
  \/ RmDelete
  \/ RmJson
  \/ RmYml
  \/ CleanupAgain
  \/ ProcExit

SpecCleanup == InitCleanup /\ [][NextCleanup]_vars

(* ------------------------ get_cloudflare_domain ------------------------- *)
\* longest cert.pem, in lines
MaxLines == 4

BeginMarker == "-----BEGIN ARGO TUNNEL TOKEN-----"
EndMarker == "-----END ARGO TUNNEL TOKEN-----"
\* base64 of {"zoneID":"z1","apiToken":"k1"}, wrapped over two lines
TokenHead == "eyJ6b25lSUQiOiJ6MSIs"
TokenTail == "ImFwaVRva2VuIjoiazEifQ=="
\* base64 of {}
EmptyObject == "e30="
NotBase64 == "not base64"
BlankLine == ""
\* the lines a cert.pem is made of
CertLines ==
  {BlankLine, BeginMarker, EndMarker, TokenHead, TokenTail, EmptyObject,
   NotBase64}
Certs == UNION {[1..n -> CertLines] : n \in 0..MaxLines}

\* get_cloudflare_domain returned None
NoDomain == "None"
ZoneName == "example.com"

\* "marker in line"
Contains(line, marker) == line = marker

RECURSIVE LStrip(_)
LStrip(ls) ==
  IF ls # <<>> /\ Head(ls) = BlankLine THEN LStrip(Tail(ls)) ELSE ls
RECURSIVE RStrip(_)
RStrip(ls) ==
  IF ls # <<>> /\ ls[Len(ls)] = BlankLine
    THEN RStrip(SubSeq(ls, 1, Len(ls) - 1)) ELSE ls
\* cert_file.read_text().strip().split('\n')
Lines(content) == RStrip(LStrip(content))

\* ''.join(token_lines): the text as the sequence of its non-empty pieces
RECURSIVE Join(_)
Join(ls) ==
  IF ls = <<>> THEN <<>>
  ELSE IF Head(ls) = BlankLine THEN Join(Tail(ls))
  ELSE <<Head(ls)>> \o Join(Tail(ls))

\* base64.b64decode reads up to and including the first padded group and
\* ignores what follows it
Padded(piece) == piece \in {TokenTail, EmptyObject}
RECURSIVE UpToPadding(_)
UpToPadding(ps) ==
  IF ps = <<>> THEN <<>>
  ELSE IF Padded(Head(ps)) THEN <<Head(ps)>>
  ELSE <<Head(ps)>> \o UpToPadding(Tail(ps))

DecodeError == [ok |-> FALSE, zoneID |-> "", apiToken |-> ""]
\* json.loads(base64.b64decode(token_b64).decode('utf-8')), then the
\* .get('zoneID') and .get('apiToken')
TokenData(token_b64) ==
  LET read == UpToPadding(token_b64) IN
    IF read = <<TokenHead, TokenTail>>
      THEN [ok |-> TRUE, zoneID |-> "z1", apiToken |-> "k1"]
    ELSE IF read = <<EmptyObject>>
      THEN [ok |-> TRUE, zoneID |-> "", apiToken |-> ""]
    ELSE DecodeError

idFrame ==
  UNCHANGED <<envVars, runVars, sigVars, provVars, cleanVars, rmVars,
              probeVars, cfgVars, waitVars, lastRun>>

\* get_cloudflare_domain: "if not cert_file.exists()", read_text
IdReadCert ==
  /\ pc = "id_read"
  /\ IF cert_content = NoCert
       THEN /\ domain' = NoDomain
            /\ pc' = "id_done"
            /\ UNCHANGED lineNo
       ELSE /\ lineNo' = 1
            /\ pc' = "id_scan"
            /\ UNCHANGED domain
  /\ UNCHANGED <<cert_content, in_token, token_lines, apiCalls>>
  /\ idFrame

\* get_cloudflare_domain: one pass of "for line in lines"
IdScanLine ==
  /\ pc = "id_scan"
  /\ LET lines == Lines(cert_content) IN
       IF lineNo > Len(lines)
         THEN /\ pc' = "id_decode"
              /\ UNCHANGED <<lineNo, in_token, token_lines>>
       ELSE IF Contains(lines[lineNo], BeginMarker)
         THEN /\ in_token' = TRUE
              /\ lineNo' = lineNo + 1
              /\ UNCHANGED <<pc, token_lines>>
       ELSE IF Contains(lines[lineNo], EndMarker)
         THEN /\ pc' = "id_decode"
              /\ UNCHANGED <<lineNo, in_token, token_lines>>
       ELSE /\ token_lines' = IF in_token
                                THEN Append(token_lines, lines[lineNo])
                                ELSE token_lines
            /\ lineNo' = lineNo + 1
            /\ UNCHANGED <<pc, in_token>>
  /\ UNCHANGED <<cert_content, apiCalls, domain>>
  /\ idFrame

\* get_cloudflare_domain: "if not token_lines", the decoding and the
\* "if not all([zone_id, api_token])" test
IdDecode ==
  /\ pc = "id_decode"
  /\ LET token_data == TokenData(Join(token_lines)) IN
       IF token_lines = <<>> \/ ~token_data.ok
            \/ token_data.zoneID = "" \/ token_data.apiToken = ""
         THEN /\ domain' = NoDomain
              /\ pc' = "id_done"
         ELSE /\ pc' = "id_api"
              /\ UNCHANGED domain
  /\ UNCHANGED <<cert_content, lineNo, in_token, token_lines, apiCalls>>
  /\ idFrame

\* what requests.get(url, headers=headers, timeout=10) can lead to
ApiOutcomes == {"ok", "status", "unsuccessful", "noname", "exception"}

\* get_cloudflare_domain: "Make API call to get zone information"
IdApiCall ==
  /\ pc = "id_api"
  /\ \E out \in ApiOutcomes :
       domain' = IF out = "ok" THEN ZoneName ELSE NoDomain
  /\ apiCalls' = apiCalls + 1
  /\ pc' = "id_done"
  /\ UNCHANGED <<cert_content, lineNo, in_token, token_lines>>
  /\ idFrame

\* the variables of a manager that is not running anything
ManagerIdle ==
  /\ InitCommon
  /\ \A p \in Paths : Exists(files, p) <=> p[2] = OtherName
  /\ provTunnels = {OtherName}
  /\ caller = "none"
  /\ command = "none"
  /\ port = 0
  /\ handlers = FALSE
  /\ procs = [p \in ProcNames |-> "none"]
  /\ cleanupCalls = 0
  /\ cleanupState = "notrun"
  /\ atEntry = NoEntry

\* __init__ is about to call get_cloudflare_domain; cert.pem is missing or
\* holds any lines
InitIdentity ==
  /\ ManagerIdle
  /\ InitConfigIdle
  /\ InitWaitIdle
  /\ pc = "id_read"
  /\ cert_content \in Certs \cup {NoCert}
  /\ lineNo = 0
  /\ in_token = FALSE
  /\ token_lines = <<>>
  /\ apiCalls = 0
  /\ domain = NotReturned

NextIdentity ==
  \/ IdReadCert
  \/ IdScanLine
  \/ IdDecode
  \/ IdApiCall

SpecIdentity == InitIdentity /\ [][NextIdentity]_vars

(* ---------------------- create_cloudflared_config ----------------------- *)
\* self.cloudflared_dir = Path.home() / ".cloudflared"
CloudflaredDir == "/home/u/.cloudflared"
\* str(path) of a path below self.cloudflared_dir
PathText(p) ==
  IF p[1] = "yml" THEN CloudflaredDir \o "/config-tunnel-" \o p[2] \o ".yml"
  ELSE CloudflaredDir \o "/" \o p[2] \o ".json"

\* one line of the config text: its indentation, whether it opens a list
\* item ("- "), and the "key: value" it holds
Line(indent, item, key, value) ==
  [indent |-> indent, item |-> item, key |-> key, value |-> value]
EmptyLine == Line(0, FALSE, "", "")

\* variant: the catch-all rule is written before the hostname rule
ConfigText_CatchAllFirst(tunnel_name, credentials_file, hostname, local_port) ==
  <<Line(0, FALSE, "tunnel", tunnel_name),
    Line(0, FALSE, "credentials-file", PathText(credentials_file)),
    EmptyLine,
    Line(0, FALSE, "ingress", ""),
    Line(2, TRUE, "service", "http_status:404"),
    Line(2, TRUE, "hostname", hostname),
    Line(4, FALSE, "service", "http://localhost:" \o ToString(local_port)),
    EmptyLine,
    Line(0, FALSE, "#", "Security settings"),
    Line(0, FALSE, "no-autoupdate", "true"),
    Line(0, FALSE, "protocol", "quic")>>
\* create_cloudflared_config: config_content, line by line
ConfigText(tunnel_name, credentials_file, hostname, local_port) ==
  <<Line(0, FALSE, "tunnel", tunnel_name),
    Line(0, FALSE, "credentials-file", PathText(credentials_file)),
    EmptyLine,
    Line(0, FALSE, "ingress", ""),
    Line(2, TRUE, "hostname", hostname),
    Line(4, FALSE, "service", "http://localhost:" \o ToString(local_port)),
    Line(2, TRUE, "service", "http_status:404"),
    EmptyLine,
    Line(0, FALSE, "#", "Security settings"),
    Line(0, FALSE, "no-autoupdate", "true"),
    Line(0, FALSE, "protocol", "quic")>>

Hostnames == {FullDomain, StaleDomain}
LocalPorts == Ports \cup {9000}

cfgFrame ==
  UNCHANGED <<provTunnels, procs, runVars, sigVars, provVars, cleanVars,
              rmVars, probeVars, idVars, waitVars, lastRun>>

\* create_cloudflared_config: "Find existing credentials file", return False
\* when there is none
CfgFind ==
  /\ pc = "cfg_find"
  /\ pc' = IF find_tunnel_credentials_file(files, cfgArgs.tunnel_name) = NoPath
             THEN "cfg_done" ELSE "cfg_write"
  /\ UNCHANGED <<files, cfgVars>>
  /\ cfgFrame

\* create_cloudflared_config: config_path.write_text(config_content)
CfgWrite ==
  /\ pc = "cfg_write"
  /\ LET a == cfgArgs
         credentials_file == find_tunnel_credentials_file(files, a.tunnel_name)
     IN \E w \in {"ok", "raise"} :
          IF w = "ok"
            THEN /\ cfgText' = ConfigText(a.tunnel_name, credentials_file,
                                          a.hostname, a.local_port)
                 /\ files' = WriteText(files, ConfigPath(a.tunnel_name),
                                      ConfigContent(a.tunnel_name, credentials_file,
                                                    a.hostname, a.local_port))
            ELSE UNCHANGED <<cfgText, files>>
  /\ pc' = "cfg_done"
  /\ UNCHANGED cfgArgs
  /\ cfgFrame

\* create_cloudflared_config is about to be called with any arguments, on
\* any ~/.cloudflared
InitConfig ==
  /\ InitCommon
  /\ InitIdentityIdle
  /\ InitWaitIdle
  /\ provTunnels = {OtherName}
  /\ caller = "none"
  /\ command = "none"
  /\ port = 0
  /\ handlers = FALSE
  /\ procs = [p \in ProcNames |-> "none"]
  /\ cleanupCalls = 0
  /\ cleanupState = "notrun"
  /\ atEntry = NoEntry
  /\ pc = "cfg_find"
  /\ cfgArgs \in [tunnel_name : Names, hostname : Hostnames,
                  local_port : LocalPorts]
  /\ cfgText = <<>>

NextConfig ==
  \/ CfgFind
  \/ CfgWrite

SpecConfig == InitConfig /\ [][NextConfig]_vars

(* ----------------------------- wait_for_url ----------------------------- *)
\* wait_for_url: local_response = requests.get(..., timeout=2)
LocalCheckTimeout == 2
\* timeout_seconds of the modelled calls: the one run() passes, and a short one
Timeouts == {SleepSeconds, TimeoutSeconds}
\* seconds one requests.get(url, timeout=5) can take; 0 is under a second
RequestSeconds == {0, 1, RequestTimeout}
\* seconds the except block takes: the local check, made when the message
\* names a DNS problem, then time.sleep(5)
ExceptSeconds == {SleepSeconds, SleepSeconds + LocalCheckTimeout}

waitFrame ==
  UNCHANGED <<envVars, runVars, sigVars, provVars, cleanVars, rmVars,
              probeVars, idVars, cfgVars, lastRun>>

\* wait_for_url: "while datetime.now() < end_time": attempt_count += 1, or
\* the final "return False"
WaitLoop ==
  /\ pc = "w_loop"
  /\ IF waited < timeout_seconds
       THEN /\ attempt_count < MaxAttempts
            /\ attempt_count' = attempt_count + 1
            /\ pc' = "w_get"
            /\ UNCHANGED reachable
       ELSE /\ reachable' = "false"
            /\ pc' = "w_done"
            /\ UNCHANGED attempt_count
  /\ UNCHANGED <<timeout_seconds, waited, response, slept>>
  /\ waitFrame

\* wait_for_url: response = requests.get(url, timeout=5) and
\* "if response.status_code == 200: return True"
WaitGet ==
  /\ pc = "w_get"
  /\ \E out \in ProbeOutcomes, d \in RequestSeconds :
       /\ response' = out
       /\ waited' = waited + d
       /\ slept' = 0
       /\ IF out = "200"
            THEN reachable' = "true" /\ pc' = "w_done"
            ELSE /\ pc' = IF out = "exception" THEN "w_except" ELSE "w_loop"
                 /\ UNCHANGED reachable
  /\ UNCHANGED <<timeout_seconds, attempt_count>>
  /\ waitFrame

\* wait_for_url: the "except Exception as e" block, ending in time.sleep(5)
WaitExcept ==
  /\ pc = "w_except"
  /\ \E d \in ExceptSeconds : waited' = waited + d
  /\ slept' = SleepSeconds
  /\ pc' = "w_loop"
  /\ UNCHANGED <<timeout_seconds, attempt_count, response, reachable>>
  /\ waitFrame

\* wait_for_url has computed end_time and set attempt_count = 0
InitWait ==
  /\ ManagerIdle
  /\ InitIdentityIdle
  /\ InitConfigIdle
  /\ pc = "w_loop"
  /\ timeout_seconds \in Timeouts
  /\ attempt_count = 0
  /\ waited = 0
  /\ response = "none"
  /\ slept = 0
  /\ reachable = NotReturned

NextWait ==
  \/ WaitLoop
  \/ WaitGet
  \/ WaitExcept

SpecWait == InitWait /\ [][NextWait]_vars

(* ================================ claims ================================ *)
StartupFailures == {"identity", "folder", "not_installed", "provision"}
AllSteps == {"python", "cloudflared", "delete", "json", "yml"}
BothRoutesFailed ==
  /\ Len(routeLog) = 2
  /\ routeLog[1].rc = "rc1"
  /\ routeLog[2].rc = "rc1"
NoRouteRaised == \A i \in 1..Len(routeLog) : routeLog[i].rc # "raise"

\* C1: whenever a run ends after the provider created a tunnel resource for
\* it (normal return, a provisioning failure that exits 1, or a signal at any
\* point), cleanup() was executed before the process exited.
C1_CleanupOnEveryExit ==
  (pc = "exited" /\ createdByRun) => cleanupCalls >= 1

\* C2: a create_or_reuse_tunnel call that follows a successful call with the
\* same tunnel name, domain and port does not run "tunnel create" (nor
\* "tunnel delete"), takes the lookup branch, runs DNS routing again, and
\* the config it writes names the same credentials file <tunnelName>.json.
C2_ProvisionIdempotent ==
  (pc = "prov_ret" /\ prev.result = "true" /\ prev.port = port) =>
    /\ path_taken = "lookup"
    /\ createCalls = 0
    /\ deleteCalls.provision = 0
    /\ Len(routeLog) >= 1
    /\ (provResult = "true" =>
          /\ configCalls = 1
          /\ files[ConfigPath(TunnelName)].cred = prev.cred
          /\ prev.cred = CredPath(TunnelName)
          /\ Exists(files, CredPath(TunnelName)))

C2_Witness ==
  /\ pc = "prov_ret"
  /\ calls = 2
  /\ prev.result = "true"
  /\ prev.port = port
  /\ provResult = "true"
  /\ Len(routeLog) = 2

\* C3: when a signal was delivered after the processes were launched, then at
\* exit no managed process is still running, each got at most one terminate
\* and one kill, "tunnel delete" was invoked exactly once by cleanup, both
\* local files of the tunnel are gone, and cleanup ran once.
C3_InterruptTeardown ==
  (pc = "exited" /\ sigAfterLaunch) =>
    /\ \A p \in ProcNames :
         procs[p] # "running" /\ termSent[p] <= 1 /\ killSent[p] <= 1
    /\ deleteCalls.cleanup = 1
    /\ ~Exists(files, CredPath(TunnelName))
    /\ ~Exists(files, ConfigPath(TunnelName))
    /\ cleanupCalls = 1

\* C4: when a signal is delivered while cleanup() is executing, cleanup still
\* attempts every one of its steps and is executed exactly once.
C4_CleanupReentrantSafe ==
  (pc = "exited" /\ sigInCleanup) =>
    (stepsDone = AllSteps /\ cleanupCalls = 1 /\ cleanupState = "returned")

\* C5: a run ended by a startup failure exits with code 1, a run ended by
\* SIGINT/SIGTERM exits with code 0.
C5_ExitCodes ==
  pc = "exited" =>
    /\ (endedBy \in StartupFailures => exitCode = 1)
    /\ (endedBy = "signal" => exitCode = 0)

\* C6: whatever exit codes the route attempts return, create_or_reuse_tunnel
\* goes on to create_cloudflared_config (so its result is that of the config
\* step), and when both attempts failed the manual instructions were printed.
C6_DnsFailureNonFatal ==
  /\ (pc = "prov_ret" /\ routeLog # <<>> /\ NoRouteRaised) => configCalls = 1
  /\ (pc \in {"prov_config", "prov_ret"} /\ BothRoutesFailed) => manualPrinted
  /\ (pc = "prov_config" /\ routeLog # <<>>) => provResult = "none"

C6_Witness ==
  /\ pc = "prov_ret"
  /\ BothRoutesFailed
  /\ manualPrinted
  /\ provResult = "true"

\* C7: cleanup() never raises, whatever the process states, the outcome of
\* "tunnel delete" (exit 0, non-zero, cannot be run) and of the unlinks: it
\* always returns normally.
C7_TeardownNeverThrows ==
  /\ cleanupState # "raised"
  /\ pc # "exited"
  /\ (pc = "cl_done" => cleanupState = "returned")

\* the delete command could not be run and a kill() found the process gone
C7_Witness ==
  /\ pc = "cl_done"
  /\ cleanupState = "returned"
  /\ "delete" \in stepsDone
  /\ deleteCalls.cleanup = 0
  /\ killSent["cloudflared"] = 1
  /\ procs["cloudflared"] = "exited"

\* C8: a cleanup() call entered when everything is already torn down (as a
\* completed earlier call leaves it) changes no process, no provider
\* resource and no file, sends no terminate or kill, and does not raise.
C8_CleanupIdempotent ==
  [][(calls >= 2 /\ atEntry.clean) =>
       /\ envVars' = envVars
       /\ termSent' = termSent
       /\ killSent' = killSent
       /\ cleanupState' # "raised"
       /\ IsClean']_vars

\* the second call returned; the first one had stopped the transport and
\* removed the tunnel and the files
C8_Witness ==
  /\ pc = "cl_done"
  /\ calls = 2
  /\ atEntry.clean
  /\ cleanupState = "returned"
  /\ termSent["cloudflared"] = 1
  /\ deleteCalls.cleanup = 2

\* C9: cleanup() entered when neither file of the tunnel exists does not
\* raise, and no step of cleanup() changes a file other than
\* <tunnelName>.json and config-tunnel-<tunnelName>.yml.
C9_CleanupFrame ==
  /\ [](~atEntry.hadFiles => cleanupState # "raised")
  /\ [][\A p \in Paths \ {CredPath(TunnelName), ConfigPath(TunnelName)} :
          files'[p] = files[p]]_vars

C9_Witness ==
  /\ pc = "cl_done"
  /\ calls = 1
  /\ ~atEntry.hadFiles
  /\ cleanupState = "returned"
  /\ stepsDone = AllSteps
  /\ Exists(files, CredPath(OtherName))
  /\ Exists(files, ConfigPath(OtherName))

\* C10: the browser is opened at most once, exactly once when wait_for_url
\* returned True and never when it returned False; either way run() goes on
\* to its wait loop without exiting and without stopping cloudflared.
C10_BrowserOnce ==
  /\ [](/\ browserOpens <= 1
        /\ (probeResult # "true" => browserOpens = 0)
        /\ (pc = "supervise" =>
              /\ browserOpens = (IF probeResult = "true" THEN 1 ELSE 0)
              /\ probeResult \in {"true", "false"}
              /\ exitCode = -1
              /\ procs["cloudflared"] \in {"running", "exited"}
              /\ termSent["cloudflared"] = 0
              /\ killSent["cloudflared"] = 0))
  /\ [][(pc = "after_probe" /\ pc' # "after_probe") =>
          (pc' = "supervise" \/ endedBy' = "signal")]_vars

C10_Witness ==
  /\ pc = "supervise"
  /\ probeResult = "false"
  /\ browserOpens = 0
  /\ procs["cloudflared"] = "running"

\* a cert.pem line holds the marker
HasMarker(content, marker) ==
  \E i \in 1..Len(content) : Contains(content[i], marker)

\* C11: for every cert.pem that lacks the BEGIN marker line, the END marker
\* line, or both, get_cloudflare_domain returns None and never reaches the
\* zones API call.
C11_NoMarkersNoApiCall ==
  (cert_content # NoCert
     /\ (~HasMarker(cert_content, BeginMarker)
           \/ ~HasMarker(cert_content, EndMarker))) =>
    /\ pc # "id_api"
    /\ apiCalls = 0
    /\ (pc = "id_done" => domain = NoDomain)

\* C12: the text create_cloudflared_config writes holds, in this order, the
\* line "tunnel: <tunnel_name>", the line "credentials-file: <path of
\* <tunnel_name>.json>", the ingress item "hostname: <hostname>" with
\* "service: http://localhost:<local_port>" as its next line, and the item
\* "service: http_status:404", after which no further list item follows.
C12_ConfigOrder ==
  (pc = "cfg_done" /\ cfgText # <<>>) =>
    \E i, j, k, m \in 1..Len(cfgText) :
      /\ i < j /\ j < k /\ k + 1 < m
      /\ cfgText[i] = Line(0, FALSE, "tunnel", cfgArgs.tunnel_name)
      /\ cfgText[j] = Line(0, FALSE, "credentials-file",
                           PathText(CredPath(cfgArgs.tunnel_name)))
      /\ cfgText[k] = Line(2, TRUE, "hostname", cfgArgs.hostname)
      /\ cfgText[k + 1] =
           Line(4, FALSE, "service",
                "http://localhost:" \o ToString(cfgArgs.local_port))
      /\ cfgText[m] = Line(2, TRUE, "service", "http_status:404")
      /\ \A n \in (m + 1)..Len(cfgText) : ~cfgText[n].item

C12_Witness ==
  /\ pc = "cfg_done"
  /\ cfgText # <<>>
  /\ cfgArgs.tunnel_name = TunnelName
  /\ cfgArgs.local_port = 9000
  /\ files[ConfigPath(TunnelName)].port = 9000

\* C13: every cleanup() call that returns has attempted each of its five
\* steps (stop the local server, stop cloudflared, "tunnel delete", unlink
\* the credentials file, unlink the config file), whatever failed on the way.
C13_StepsIndependent ==
  pc = "cl_done" => stepsDone = AllSteps

\* the route attempts of the current call are over
RoutingDone == pc \in {"prov_config", "prov_ret"} /\ routeLog # <<>> /\ NoRouteRaised

\* the attempts are: first by tunnel name; a second one, by tunnel ID, exactly
\* when `retried` holds; never more than two, none after a successful one
RouteAttempts(retried) ==
  /\ routeLog[1].by = "name"
  /\ routeLog[1].arg = TunnelName
  /\ Len(routeLog) = (IF retried THEN 2 ELSE 1)
  /\ (retried =>
        /\ routeLog[1].rc = "rc1"
        /\ routeLog[2].by = "id"
        /\ routeLog[2].arg = tunnel_id
        /\ routeLog[2].arg \in TunnelIds)

\* C14, as stated: the first route attempt uses the tunnel name; whenever it
\* exits non-zero exactly one more attempt follows, using the tunnel ID; no
\* attempt follows a successful one.
C14_RetryOnEveryFailure ==
  RoutingDone => RouteAttempts(routeLog[1].rc = "rc1")

\* C14, amended: the first route attempt uses the tunnel name; exactly one
\* more attempt follows, using the tunnel ID, when the first exits non-zero
\* and the tunnel ID is known; otherwise there is no second attempt.
C14_RetryWhenIdKnown ==
  RoutingDone => RouteAttempts(routeLog[1].rc = "rc1" /\ tunnel_id # NoId)

C14_Witness ==
  /\ pc = "prov_ret"
  /\ provResult = "true"
  /\ path_taken = "create"
  /\ Len(routeLog) = 2
  /\ routeLog[2].rc = "rc0"
  /\ routeLog[2].arg = FreshId

\* C15: the create branch is entered only when <tunnelName>.json does not
\* exist; on it "tunnel delete" is started before "tunnel create" and
\* "tunnel create" is started at most once per call; on the lookup branch
\* neither command is started.
C15_DeleteBeforeCreate ==
  /\ createCalls <= 1
  /\ (path_taken = "lookup" =>
        /\ cmdLog = <<>>
        /\ createCalls = 0
        /\ deleteCalls.provision = 0
        /\ Exists(files, CredPath(TunnelName)))
  /\ (path_taken = "create" =>
        /\ cmdLog \in {<<>>, <<"delete">>, <<"delete", "create">>}
        /\ (cmdLog = <<>> => ~Exists(files, CredPath(TunnelName)))
        /\ (pc = "prov_create" => cmdLog = <<"delete">>)
        /\ (pc \in {"prov_route", "prov_route2", "prov_config", "prov_ret"} =>
              cmdLog = <<"delete", "create">>))

\* a call that removed the tunnel of the same name and then created it
C15_Witness ==
  /\ pc = "prov_ret"
  /\ path_taken = "create"
  /\ provResult = "true"
  /\ cmdLog = <<"delete", "create">>
  /\ deleteCalls.provision = 1
  /\ createCalls = 1

\* "cloudflared tunnel create" ran and exited non-zero
CreateFailed == path_taken = "create" /\ createCalls = 1 /\ ~createdByRun

\* C16: once "tunnel create" has exited non-zero, create_or_reuse_tunnel
\* returns False without a route attempt and without a config call, no
\* process is ever launched, and the next step of the run (unless a signal
\* ends it first) is sys.exit(1).
C16_CreateFailedFatal ==
  /\ [](CreateFailed =>
          /\ pc \in {"prov_ret", "exited"}
          /\ provResult = "false"
          /\ routeLog = <<>>
          /\ configCalls = 0
          /\ ~handlers
          /\ \A p \in ProcNames : procs[p] = "none"
          /\ (pc = "exited" => (exitCode = 1 \/ endedBy = "signal")))
  /\ [][(CreateFailed /\ pc = "prov_ret" /\ endedBy' # "signal") =>
          (pc' = "exited" /\ exitCode' = 1 /\ endedBy' = "provision")]_vars

C16_Witness ==
  /\ pc = "exited"
  /\ CreateFailed
  /\ endedBy = "provision"
  /\ exitCode = 1
  /\ cmdLog = <<"delete", "create">>
  /\ cleanupCalls = 0

\* the create branch is past the rename: routing, the config step, or
\* the return that follows them
PastRename ==
  /\ path_taken = "create"
  /\ (pc \in {"prov_route", "prov_route2", "prov_config"}
        \/ (pc = "prov_ret" /\ routeLog # <<>>))

\* C17: on the create branch, a call that goes on past the rename has
\* <tunnelName>.json holding what the provider wrote and no <tunnelID>.json
\* left; a call that returns without <tunnelName>.json in place returns False
\* with no route attempt and no config call; and whenever
\* create_or_reuse_tunnel returns True, <tunnelName>.json exists.
C17_CredentialsRenamed ==
  /\ (PastRename =>
        /\ Exists(files, CredPath(TunnelName))
        /\ ~Exists(files, IdFilePath(FreshId))
        /\ (files[CredPath(TunnelName)].kind = "json" =>
              files[CredPath(TunnelName)].id = FreshId))
  /\ ((pc = "prov_ret" /\ path_taken = "create"
         /\ ~Exists(files, CredPath(TunnelName))) =>
        /\ provResult = "false"
        /\ routeLog = <<>>
        /\ configCalls = 0)
  /\ ((pc = "prov_ret" /\ provResult = "true") =>
        Exists(files, CredPath(TunnelName)))

\* the credentials path came from the "Created tunnel ... with id" message
C17_Witness ==
  /\ pc = "prov_ret"
  /\ path_taken = "create"
  /\ provResult = "true"
  /\ tunnel_id = FreshId
  /\ files[CredPath(TunnelName)] = JsonOf(FreshId)
  /\ ~Exists(files, IdFilePath(FreshId))

\* the lookup branch found a <tunnelName>.json it cannot read or parse
UnreadableLookup ==
  path_taken = "lookup" /\ files[CredPath(TunnelName)].kind = "garbage"

C19_ConfigRegenerated ==
  (pc = "prov_ret" /\ provResult = "true") =>
    /\ configCalls = 1
    /\ files[ConfigPath(TunnelName)] =
         ConfigContent(TunnelName, CredPath(TunnelName), FullDomain, port)
    /\ Exists(files, files[ConfigPath(TunnelName)].cred)

\* the lookup branch replaced the config the previous call wrote for
\* another port
C19_Witness ==
  /\ pc = "prov_ret"
  /\ provResult = "true"
  /\ path_taken = "lookup"
  /\ calls = 2
  /\ prev.result = "true"
  /\ prev.port # port
  /\ files[ConfigPath(TunnelName)].port = port

\* the step that executes the stop block of process p
StopStep(p) ==
  /\ pc = (IF p = "python" THEN "cl_python" ELSE "cl_cloudflared")
  /\ pc' # pc

\* what the stop block of p did to a process that was running: terminate()
\* once, a wait of at most the timeout, kill() once exactly when the wait
\* timed out or the process was found gone, no exception, process not running
StoppedRunning(p) ==
  /\ termSent'[p] = termSent[p] + 1
  /\ stopLog'[p].how \in {"exited", "timeout", "gone"}
  /\ stopLog'[p].waited <= StopTimeout
  /\ (stopLog'[p].how = "timeout" => stopLog'[p].waited = StopTimeout)
  /\ killSent'[p] =
       killSent[p] + (IF stopLog'[p].how = "exited" THEN 0 ELSE 1)
  /\ procs'[p] \in {"exited", "killed"}
  /\ (procs'[p] = "killed" => killSent'[p] = killSent[p] + 1)
  /\ cleanupState' = "running"
  /\ pc' # "exited"

\* what the stop block of p did to a process that was not running
LeftAlone(p) ==
  /\ termSent'[p] = termSent[p]
  /\ killSent'[p] = killSent[p]
  /\ procs'[p] = procs[p]
  /\ stopLog'[p].how = "skipped"
  /\ cleanupState' = "running"

C21_SupervisionLoop ==
  /\ [](pc = "supervise" /\ LoopEnds => ENABLED SuperviseReturn)
  /\ []((pc = "exited" /\ endedBy = "return") =>
          \A p \in ProcNames : procs[p] # "running")
  /\ [][(pc = "supervise" /\ pc' # "supervise") =>
          \/ endedBy' = "signal"
          \/ (LoopEnds /\ endedBy' = "return" /\ pc' = "cl_python")]_vars

\* C22: wait_for_url sleeps 5 seconds between any two consecutive attempts,
\* returns True only after an attempt answered with 200, returns False only
\* once timeout_seconds have passed, and makes at most about
\* timeout_seconds / 5 attempts.
AttemptBound(t) == t \div SleepSeconds + 1
C22_ProbePacing ==
  /\ [](reachable = "true" => response = "200")
  /\ [](reachable = "false" => waited >= timeout_seconds)
  /\ [](attempt_count <= AttemptBound(timeout_seconds))
  /\ [][(attempt_count' > attempt_count /\ attempt_count >= 1) =>
          slept >= SleepSeconds]_vars

\* C23: a process handle is filled at most once per run and never emptied;
\* self.python_process is set only when the command is "folder"; and when
\* run() is in its wait loop cloudflared has been launched.
Launched(p) == procs[p] # "running" /\ procs'[p] = "running"
C23_ProcessHandles ==
  /\ [](procs["python"] # "none" => command = "folder")
  /\ [](pc = "supervise" => procs["cloudflared"] # "none")
  /\ [][\A p \in ProcNames :
          /\ Launched(p) => procs[p] = "none"
          /\ procs[p] # "none" => procs'[p] # "none"]_vars
C23_Witness ==
  /\ pc = "supervise"
  /\ command = "folder"
  /\ procs["python"] = "exited"
  /\ procs["cloudflared"] = "running"

\* C24 as stated: in cleanup, whenever the plain unlink of the credentials
\* file fails, for any error, the second and, if needed, the third unlink
\* are attempted, so a file that is still there was tried three times; the
\* step raises nothing and goes on to the config file.
JsonStepLeaves == pc = "rm_json" /\ caller = "cleanup" /\ pc' # "rm_json"
JsonStepDone == pc = "rm_yml" /\ caller = "cleanup"
C24_RetryOnAnyError ==
  /\ []((JsonStepDone /\ Exists(files, CredPath(TunnelName))) =>
          (unlinkTries = 3 /\ rmLogged))
  /\ [][JsonStepLeaves => (pc' = "rm_yml" /\ "json" \in stepsDone')]_vars

\* C24: in cleanup, when the plain unlink of the credentials file fails with
\* PermissionError a second unlink is attempted after chmod, and if that
\* fails a third after a 1 s sleep; any other error of the plain unlink is
\* logged with no further attempt; a failure is logged exactly when the
\* last attempt made failed; the step raises nothing and goes on to the
\* config file.
C24_ThreeTierDelete ==
  /\ \A e1 \in UnlinkOutcomes, e2 \in UnlinkOutcomes, e3 \in UnlinkOutcomes :
       LET r == UnlinkJson(e1, e2, e3) IN
         /\ r.exc = NoExc
         /\ e1 = NoExc => (r.tries = 1 /\ r.removed)
         /\ e1 = "PermissionError" => r.tries >= 2
         /\ (e1 = "PermissionError" /\ e2 # NoExc) => r.tries = 3
         /\ e1 \notin {NoExc, "PermissionError"} => (r.tries = 1 /\ ~r.removed)
         /\ r.tries = 2 => r.removed
         /\ r.tries = 3 => (r.removed <=> e3 = NoExc)
         /\ r.logged <=> ~r.removed
  /\ []((JsonStepDone /\ Exists(files, CredPath(TunnelName))) =>
          (unlinkTries \in {1, 3} /\ rmLogged))
  /\ []((JsonStepDone /\ ~Exists(files, CredPath(TunnelName))) => ~rmLogged)
  /\ [][JsonStepLeaves => (pc' = "rm_yml" /\ "json" \in stepsDone')]_vars
C24_Witness ==
  /\ JsonStepDone
  /\ Exists(files, CredPath(TunnelName))
  /\ unlinkTries = 3
  /\ rmLogged

\* C25: cloudflared is launched only after create_or_reuse_tunnel returned
\* True in this run, with <tunnelName>.json and
\* config-tunnel-<tunnelName>.yml both present; cleanup and the signal
\* handlers are registered before either process is launched; and with the
\* command "folder" the HTTP server is launched before cloudflared.
C25_LaunchOrder ==
  [][/\ \A p \in ProcNames : Launched(p) => handlers
     /\ Launched("cloudflared") =>
          /\ provResult = "true"
          /\ Exists(files, CredPath(TunnelName))
          /\ Exists(files, ConfigPath(TunnelName))
          /\ command = "folder" => procs["python"] # "none"]_vars
C25_Witness ==
  /\ pc = "probe"
  /\ handlers
  /\ command = "folder"
  /\ procs["python"] = "running"
  /\ procs["cloudflared"] = "running"
  /\ path_taken = "create"

\* C26: a run that follows a run whose cleanup() returned with both file
\* removals attempted and none reported failed finds no <tunnelName>.json
\* and takes the create path; a run after the first takes the lookup path
\* only when the previous run did not end that way.
C26_CleanRunThenCreate ==
  /\ (run > 1 /\ lastRun = "clean" /\ pc \in {"init", "chdir", "check_installed",
                                            "prov_lookup"}) =>
       ~Exists(files, CredPath(TunnelName))
  /\ (run > 1 /\ lastRun = "clean" /\ path_taken # "none") =>
       path_taken = "create"
  /\ (run > 1 /\ path_taken = "lookup") => lastRun = "unclean"
C26_Witness ==
  /\ run = 2
  /\ lastRun = "clean"
  /\ path_taken = "create"
  /\ prev.result = "true"

====
